---- MODULE Spec2Model ----
(***************************************************************************)
(* A model of modules/layers.py: the relational GNN layers REGCNLayer,     *)
(* WGCNLayer, GCNLayer, CompGCNLayer and RGCNLayer.  A layer is            *)
(* constructed, then its forward is called on an edge list; the state      *)
(* holds the layer object, the arguments of the call, the locals of the    *)
(* call that the properties speak about, and what the call returned or     *)
(* raised.  Tensors are functions over 0..n-1, as the code indexes them.   *)
(***************************************************************************)
EXTENDS Integers, Sequences, FiniteSets

VARIABLES layer, pc, op, call, loc, ret, err

vars == <<layer, pc, op, call, loc, ret, err>>

(* ------------------------------ bounds -------------------------------- *)

\* number of nodes of the graph (rows of the node embedding matrix)
NumNodes == 3

\* longest edge list passed to a forward call
MaxEdges == 2

(* ----------------------- constructor arguments ------------------------ *)

input_dim == 2

output_dim == 2

\* CompGCNLayer(num_rela): relation ids 0..2*num_rela-1, self-loop row 2*num_rela
num_rela == 1

\* RGCNLayer(num_rels), WGCNLayer(num_relation), rows of REGCN's edges_embed
num_rels == 2

(* ------------------------------ tensors ------------------------------- *)

Idx(n) == 0 .. (n - 1)

Range(f) == {f[i] : i \in DOMAIN f}

RECURSIVE SumOver(_, _)
\* sum of the integers f[i], i in the finite set S
SumOver(f, S) ==
    IF S = {} THEN 0
    ELSE LET i == CHOOSE x \in S : TRUE IN f[i] + SumOver(f, S \ {i})

VecAdd(a, b) == [j \in DOMAIN a |-> a[j] + b[j]]

VecSub(a, b) == [j \in DOMAIN a |-> a[j] - b[j]]

VecMul(a, b) == [j \in DOMAIN a |-> a[j] * b[j]]

VecScale(a, c) == [j \in DOMAIN a |-> a[j] * c]

Zeros(n) == [j \in Idx(n) |-> 0]

\* nn.Linear without bias: y = x W^T, W of shape (out, in)
Linear(W, x) == [j \in DOMAIN W |-> SumOver([i \in DOMAIN x |-> x[i] * W[j][i]], DOMAIN x)]

\* x @ M, M of shape (in, out)
MatVec(x, M) == [j \in Idx(output_dim) |-> SumOver([i \in DOMAIN x |-> x[i] * M[i][j]], DOMAIN x)]

(* rationals n/d in lowest terms, d > 0: the quotient message / count *)

Abs(x) == IF x < 0 THEN -x ELSE x

RECURSIVE GCD(_, _)
GCD(a, b) == IF b = 0 THEN a ELSE GCD(b, a % b)

RatNorm(n, d) ==
    LET g == GCD(Abs(n), d) IN <<n \div g, d \div g>>

RatOfInt(n) == <<n, 1>>

RatAdd(p, q) == RatNorm(p[1] * q[2] + q[1] * p[2], p[2] * q[2])

RatVecOfInt(a) == [j \in DOMAIN a |-> RatOfInt(a[j])]

RatVecAdd(a, b) == [j \in DOMAIN a |-> RatAdd(a[j], b[j])]

\* a / c for an integer vector a and a count c >= 1
RatVecDiv(a, c) == [j \in DOMAIN a |-> RatNorm(a[j], c)]

(* ------------------- fixed embeddings and weights --------------------- *)

\* a weight matrix with k on the diagonal and 1 elsewhere
Weight(k, rows, cols) == [a \in Idx(rows) |-> [b \in Idx(cols) |-> IF a = b THEN k ELSE 1]]

node_embeddings == [n \in Idx(NumNodes) |-> [i \in Idx(input_dim) |-> 2 * n + i + 1]]

\* one row per relation id, plus CompGCN's self-loop row 2*num_rela
rela_embeddings == [r \in Idx(2 * num_rela + 1) |-> [i \in Idx(input_dim) |-> 3 * r + 2 * i + 2]]

Triples == Idx(NumNodes) \X Idx(num_rels) \X Idx(NumNodes)

EdgeLists == UNION {[Idx(k) -> Triples] : k \in 0 .. MaxEdges}

Column(edges, c) == [e \in DOMAIN edges |-> edges[e][c]]

Orders(S) == {p \in [S -> S] : \A y \in S : \E x \in S : p[x] = y}

Permute(edges, p) == [i \in DOMAIN edges |-> edges[p[i]]]

(* ------------------- torch.unique and scatter_add_ -------------------- *)

\* position of node id x among the sorted distinct values of des
Rank(des, x) == Cardinality({y \in Range(des) : y < x})

\* torch.unique(des): the sorted distinct values
Unique(des) ==
    [k \in Idx(Cardinality(Range(des))) |-> CHOOSE x \in Range(des) : Rank(des, x) = k]

\* torch.unique(des, return_inverse=True)[1]
UniqueInverse(des) == [e \in DOMAIN des |-> Rank(des, des[e])]

\* torch.unique(des, return_counts=True)[-1]
UniqueCounts(des) ==
    [k \in Idx(Cardinality(Range(des))) |->
        Cardinality({e \in DOMAIN des : Rank(des, des[e]) = k})]

\* torch.zeros(K, D).scatter_add_(0, index.expand_as(message), message)
ScatterAdd(K, index, message) ==
    [k \in Idx(K) |->
        [j \in Idx(output_dim) |->
            SumOver([e \in DOMAIN message |-> message[e][j]],
                    {e \in DOMAIN message : index[e] = k})]]

\* the writes index_matrix[des] = arange(len(des)) can leave: an index put with
\* repeated indices keeps, for each written position, one of the values written there
IndexPutWinners(des) ==
    {w \in [Range(des) -> DOMAIN des] : \A d \in Range(des) : des[w[d]] = d}

\* the index put left out: index_matrix stays as it was
IndexPut_Skipped(index_matrix, des, win) == index_matrix

\* index_matrix[des] = torch.arange(des.shape[0]), win the surviving writes
IndexPut(index_matrix, des, win) ==
    [n \in DOMAIN index_matrix |-> IF n \in Range(des) THEN win[n] ELSE index_matrix[n]]

\* message[index_matrix[des]]
Gather(index_matrix, des) == [e \in DOMAIN des |-> index_matrix[des[e]]]

\* the aggregate added to the first rows of h instead of the rows des_index names
IndexAdd_FirstRows(h, des_index, message) ==
    [n \in DOMAIN h |-> IF n \in DOMAIN message THEN VecAdd(h[n], message[n]) ELSE h[n]]

\* h[des_index] = h[des_index] + message, des_index distinct rows
IndexAdd(h, des_index, message) ==
    [n \in DOMAIN h |->
        IF n \in Range(des_index)
        THEN LET k == CHOOSE x \in DOMAIN des_index : des_index[x] = n
             IN VecAdd(h[n], message[k])
        ELSE h[n]]

\* the same on rows of rationals
RatIndexAdd(h, des_index, message) ==
    [n \in DOMAIN h |->
        IF n \in Range(des_index)
        THEN LET k == CHOOSE x \in DOMAIN des_index : des_index[x] = n
             IN RatVecAdd(h[n], message[k])
        ELSE h[n]]

(* ------------------------------ RGCNLayer ----------------------------- *)

\* self.weight[r], shape (input_dim, output_dim)
RGCN_weight(r) == Weight(r + 2, input_dim, output_dim)

\* self_loop_weigt is allocated by torch.Tensor(input_dim, output_dim) and never
\* initialised: the layer is built with whatever the allocation holds
SelfLoopWeights == {Weight(2, input_dim, output_dim), Weight(4, input_dim, output_dim)}

RGCN_init(slw) == [cls |-> "RGCNLayer", self_loop_weigt |-> slw]

\* RGCNLayer.aggregate
RGCN_aggregate(message, des) ==
    LET des_unique == Unique(des)
        des_index == UniqueInverse(des)
        count == UniqueCounts(des)
        summed == ScatterAdd(Cardinality(Range(des)), des_index, message)
    IN [des_unique |-> des_unique,
        des_index |-> des_index,
        message |-> [k \in DOMAIN des_unique |-> RatVecDiv(summed[k], count[k])]]

\* RGCNLayer.forward, win the surviving writes of the index put
RGCN_forward(self, h, edges, win) ==
    LET src == Column(edges, 1)
        rel == Column(edges, 2)
        dst == Column(edges, 3)
        index_matrix == IndexPut(Zeros(NumNodes), dst, win)
        msg == [e \in DOMAIN edges |-> MatVec(h[src[e]], RGCN_weight(rel[e]))]
        gather == Gather(index_matrix, dst)
        sorted == [e \in DOMAIN edges |-> msg[gather[e]]]
        agg == RGCN_aggregate(sorted, dst)
        out == [n \in DOMAIN h |-> RatVecOfInt(MatVec(h[n], self.self_loop_weigt))]
    IN [ret |-> RatIndexAdd(out, agg.des_unique, agg.message),
        err |-> "none",
        loc |-> [dst |-> dst, gather |-> gather, des_unique |-> agg.des_unique,
                 des_index |-> agg.des_index]]

(* ----------------------------- CompGCNLayer --------------------------- *)

Modes == {"add", "sub", "mult"}

\* a mode string composition has no branch for
AnyModes == Modes \cup {"corr"}

None == "None"

\* CompGCNLayer.composition
composition(node_embed, rela_embed, mode) ==
    IF mode = "add" THEN VecAdd(node_embed, rela_embed)
    ELSE IF mode = "sub" THEN VecSub(node_embed, rela_embed)
    ELSE IF mode = "mult" THEN VecMul(node_embed, rela_embed)
    ELSE None

W_i == Weight(2, output_dim, input_dim)

W_o == Weight(3, output_dim, input_dim)

W_s == Weight(5, output_dim, input_dim)

W_r == Weight(7, output_dim, input_dim)

CompGCN_init == [cls |-> "CompGCNLayer", num_rela |-> num_rela]

\* the forward mask with <= for <
ForwardMask_Inclusive(self, edges) == [e \in DOMAIN edges |-> edges[e][2] <= self.num_rela]

\* the mask edges[:, 1] < self.num_rela
ForwardMask(self, edges) == [e \in DOMAIN edges |-> edges[e][2] < self.num_rela]

\* the mask edges[:, 1] >= self.num_rela
ReverseMask(self, edges) == [e \in DOMAIN edges |-> edges[e][2] >= self.num_rela]

\* the rows a boolean mask selects, in their order: edges[index]
BoolIndex(index) ==
    LET sel == {e \in DOMAIN index : index[e]}
    IN [k \in Idx(Cardinality(sel)) |->
           CHOOSE e \in sel : Cardinality({x \in sel : x < e}) = k]

\* CompGCNLayer.aggregate
CompGCN_aggregate(message, des) ==
    LET des_unique == Unique(des)
        des_index == UniqueInverse(des)
    IN [des_unique |-> des_unique,
        des_index |-> des_index,
        message |-> ScatterAdd(Cardinality(Range(des)), des_index, message)]

\* one pass of CompGCNLayer.forward over the edges rows selects (lines 174-182
\* and 186-193), W the pass's linear map, win the surviving writes of its index put
CompGCN_pass(node_embed, rela_embed, edges, rows, W, index_matrix0, h_v, win) ==
    LET src == [k \in DOMAIN rows |-> edges[rows[k]][1]]
        rela == [k \in DOMAIN rows |-> edges[rows[k]][2]]
        des == [k \in DOMAIN rows |-> edges[rows[k]][3]]
        index_matrix == IndexPut(index_matrix0, des, win)
        message == [k \in DOMAIN rows |->
                       Linear(W, composition(node_embed[src[k]], rela_embed[rela[k]], "add"))]
        gather == Gather(index_matrix, des)
        sorted == [k \in DOMAIN rows |-> message[gather[k]]]
        agg == CompGCN_aggregate(sorted, des)
    IN [h_v |-> IndexAdd(h_v, agg.des_unique, agg.message),
        index_matrix |-> index_matrix,
        rows |-> rows, des |-> des, message |-> message, gather |-> gather,
        des_unique |-> agg.des_unique, des_index |-> agg.des_index]

\* CompGCNLayer.forward
CompGCN_forward(self, node_embed, rela_embed, edges, mode, win_o, win_s) ==
    IF mode \notin Modes
    THEN \* composition returns None and self.W_i(None) raises
         [ret |-> None, err |-> "TypeError", loc |-> [raised_at |-> 170]]
    ELSE
    LET h_v0 == [n \in DOMAIN node_embed |->
                    Linear(W_i, composition(node_embed[n], rela_embed[self.num_rela * 2], mode))]
        o == CompGCN_pass(node_embed, rela_embed, edges, BoolIndex(ForwardMask(self, edges)),
                          W_o, Zeros(NumNodes), h_v0, win_o)
        s == CompGCN_pass(node_embed, rela_embed, edges, BoolIndex(ReverseMask(self, edges)),
                          W_s, o.index_matrix, o.h_v, win_s)
        h_r == [r \in DOMAIN rela_embed |-> Linear(W_r, rela_embed[r])]
    IN [ret |-> [h_v |-> s.h_v, h_r |-> h_r],
        err |-> "none",
        loc |-> [self_loop |-> h_v0, o |-> o, s |-> s]]

(* ------------------------------ REGCNLayer ---------------------------- *)

\* the activation names a caller may pass
ActiveNames == {"rrelu", "sigmoid", "tanh", "relu", "gelu"}

\* an attribute __init__ never assigned
Unset == "unset"

\* REGCNLayer.__init__: no branch assigns self.active for another name
REGCN_init(bias, active) ==
    [cls |-> "REGCNLayer",
     bias |-> bias,
     active |-> IF active = "rrelu" THEN "RReLU"
                ELSE IF active = "sigmoid" THEN "Sigmoid"
                ELSE IF active = "tanh" THEN "Tanh"
                ELSE Unset]

edges_embed == [r \in Idx(num_rels) |-> [i \in Idx(input_dim) |-> 3 * r + 2 * i + 2]]

fc_bias == [j \in Idx(output_dim) |-> j + 1]

\* nn.Linear(input_dim, output_dim, bias=bias)
LinearBias(W, bias, x) == IF bias THEN VecAdd(Linear(W, x), fc_bias) ELSE Linear(W, x)

fc_self(self, x) == LinearBias(Weight(2, output_dim, input_dim), self.bias, x)

fc_aggregate(self, x) == LinearBias(Weight(3, output_dim, input_dim), self.bias, x)

\* REGCNLayer.calculate_message
REGCN_calculate_message(self, src, rela) == fc_aggregate(self, VecAdd(src, rela))

\* the (num_node, 1) csr matrix holding k at row des_unique[k], read as a column
CsrIndexMatrix(des_unique, num_node) ==
    [n \in Idx(num_node) |->
        IF n \in Range(des_unique)
        THEN CHOOSE k \in DOMAIN des_unique : des_unique[k] = n
        ELSE 0]

\* REGCNLayer.aggregate
REGCN_aggregate(message, num_node, des) ==
    LET des_unique == Unique(des)
        count == UniqueCounts(des)
        index_matrix == CsrIndexMatrix(des_unique, num_node)
        index == Gather(index_matrix, des)
        summed == ScatterAdd(Cardinality(Range(des)), index, message)
    IN [des_unique |-> des_unique,
        index |-> index,
        message |-> [k \in DOMAIN des_unique |-> RatVecDiv(summed[k], count[k])]]

\* self.active(h): the activation applied to h
Activation(active, h) == [activation |-> active, of |-> h]

\* REGCNLayer.forward
REGCN_forward(self, nodes_embed, edges_emb, edges) ==
    LET h0 == [n \in DOMAIN nodes_embed |-> RatVecOfInt(fc_self(self, nodes_embed[n]))]
        message == [e \in DOMAIN edges |->
                       REGCN_calculate_message(self, nodes_embed[edges[e][1]],
                                               edges_emb[edges[e][2]])]
        des == Column(edges, 3)
        agg == REGCN_aggregate(message, NumNodes, des)
        h == RatIndexAdd(h0, agg.des_unique, agg.message)
        locals == [h |-> h, des |-> des, des_unique |-> agg.des_unique, index |-> agg.index]
    IN IF self.active = Unset
       THEN [ret |-> None, err |-> "AttributeError", loc |-> locals]
       ELSE [ret |-> Activation(self.active, h), err |-> "none", loc |-> locals]

(* ------------------------------ WGCNLayer ----------------------------- *)

\* WGCNLayer.__init__: any name but sigmoid and tanh builds a ReLU
WGCN_init(active) ==
    [cls |-> "WGCNLayer",
     active |-> IF active = "sigmoid" THEN "Sigmoid"
                ELSE IF active = "tanh" THEN "Tanh"
                ELSE "ReLU"]

relation_weight == [r \in Idx(num_rels) |-> r + 2]

WGCN_fc(x) == Linear(Weight(2, output_dim, input_dim), x)

\* WGCNLayer.calculate_message
WGCN_calculate_message(src, weight) == WGCN_fc(VecScale(src, weight))

\* the parameters of WGCNLayer.aggregate after self
WGCN_aggregate_params == <<"message", "num_node", "des">>

\* WGCNLayer.aggregate
WGCN_aggregate(message, num_node, des) ==
    LET des_unique == Unique(des)
        index_matrix == CsrIndexMatrix(des_unique, num_node)
        index == Gather(index_matrix, des)
    IN [des_unique |-> des_unique,
        message |-> ScatterAdd(Cardinality(Range(des)), index, message)]

\* WGCNLayer.forward: it passes aggregate four arguments
WGCN_forward(self, nodes_embed, edges) ==
    LET h0 == [n \in DOMAIN nodes_embed |-> WGCN_fc(nodes_embed[n])]
        message == [e \in DOMAIN edges |->
                       WGCN_calculate_message(nodes_embed[edges[e][1]],
                                              relation_weight[edges[e][2]])]
        args == <<message, NumNodes, Cardinality(DOMAIN edges), Column(edges, 3)>>
    IN IF Len(args) # Len(WGCN_aggregate_params)
       THEN [ret |-> None, err |-> "TypeError", loc |-> [raised_at |-> 98]]
       ELSE LET agg == WGCN_aggregate(args[1], args[2], args[3])
                h == IndexAdd(h0, agg.des_unique, agg.message)
            IN [ret |-> Activation(self.active, h), err |-> "none", loc |-> [h |-> h]]

(* ------------------------------- GCNLayer ----------------------------- *)

GCN_init == [cls |-> "GCNLayer"]

\* edge_index of shape (2, num_edge), kept as the list of its columns <<src, dst>>
Pairs == Idx(NumNodes) \X Idx(NumNodes)

PairLists == UNION {[Idx(k) -> Pairs] : k \in 0 .. MaxEdges}

\* the edge list passed on without the self-loops
add_self_loops_Omitted(edges, num_nodes) == edges

\* torch_geometric.utils.add_self_loops: the edges followed by (i, i) for every node
add_self_loops(edges, num_nodes) ==
    LET E == Cardinality(DOMAIN edges)
    IN [e \in Idx(E + num_nodes) |-> IF e < E THEN edges[e] ELSE <<e - E, e - E>>]

\* torch_geometric.utils.degree: how often each node occurs in index
degree(index, num_nodes) ==
    [n \in Idx(num_nodes) |-> Cardinality({e \in DOMAIN index : index[e] = n})]

Inf == [kind |-> "inf"]

Zero == [kind |-> "zero"]

\* k^(-1/2) for k >= 1
RSqrt(k) == [kind |-> "rsqrt", of |-> k]

\* deg.pow(-0.5)
PowMinusHalf(deg) == [n \in DOMAIN deg |-> IF deg[n] = 0 THEN Inf ELSE RSqrt(deg[n])]

\* deg_inv_sqrt[torch.isinf(deg_inv_sqrt)] = 0
ReplaceInf(x) == [n \in DOMAIN x |-> IF x[n] = Inf THEN Zero ELSE x[n]]

\* the product of two entries of deg_inv_sqrt
NormMul(a, b) ==
    IF a = Zero \/ b = Zero THEN Zero
    ELSE IF a = Inf \/ b = Inf THEN Inf
    ELSE RSqrt(a.of * b.of)

\* GCNLayer.message summed at node d by aggr='add': for each coefficient the sum of
\* the source rows it multiplies
GCN_aggregate(edges, norm, x, d) ==
    LET into == {e \in DOMAIN edges : edges[e][2] = d}
        coefs == {norm[e] : e \in into}
    IN [c \in coefs |->
           [i \in Idx(input_dim) |->
               SumOver([e \in DOMAIN edges |-> x[edges[e][1]][i]],
                       {e \in into : norm[e] = c})]]

\* GCNLayer.update: self.lin, a linear map with bias, of the aggregate
GCN_update(aggr_out) ==
    [terms |-> [c \in DOMAIN aggr_out |-> Linear(Weight(2, output_dim, input_dim), aggr_out[c])],
     bias |-> fc_bias]

\* GCNLayer.forward
GCN_forward(node_embed, edges0) ==
    LET edges == add_self_loops(edges0, NumNodes)
        deg == degree(Column(edges, 1), NumNodes)
        raw == PowMinusHalf(deg)
        deg_inv_sqrt == ReplaceInf(raw)
        norm == [e \in DOMAIN edges |-> NormMul(deg_inv_sqrt[edges[e][1]], deg_inv_sqrt[edges[e][2]])]
    IN [ret |-> [n \in DOMAIN node_embed |-> GCN_update(GCN_aggregate(edges, norm, node_embed, n))],
        err |-> "none",
        loc |-> [edges |-> edges, deg |-> deg, pow |-> raw, deg_inv_sqrt |-> deg_inv_sqrt,
                 norm |-> norm]]

(* ------------------------------ actions ------------------------------- *)

NoLayer == [cls |-> "none"]

NoCall == [edges |-> <<>>]

NoLoc == [none |-> TRUE]

Init ==
    /\ layer = NoLayer
    /\ pc = "new"
    /\ op = "none"
    /\ call = NoCall
    /\ loc = NoLoc
    /\ ret = None
    /\ err = "none"

\* a constructor ran to its end and returned the layer obj
Constructed(args, obj) ==
    /\ pc = "new"
    /\ layer' = obj
    /\ pc' = "idle"
    /\ op' = "__init__"
    /\ call' = args
    /\ UNCHANGED <<loc, ret, err>>

\* a method ran: its result or the exception it raised
Returned(name, args, res) ==
    /\ pc' = "returned"
    /\ op' = name
    /\ call' = args
    /\ loc' = res.loc
    /\ ret' = res.ret
    /\ err' = res.err
    /\ UNCHANGED layer

RGCNConstruct(slw) == Constructed(NoCall, RGCN_init(slw))

CompGCNConstruct == Constructed(NoCall, CompGCN_init)

REGCNConstruct(bias, active) ==
    Constructed([edges |-> <<>>, active |-> active], REGCN_init(bias, active))

WGCNConstruct(active) ==
    Constructed([edges |-> <<>>, active |-> active], WGCN_init(active))

GCNConstruct == Constructed(NoCall, GCN_init)

RGCNForward(edges) ==
    \E win \in IndexPutWinners(Column(edges, 3)) :
       Returned("forward", [edges |-> edges],
                RGCN_forward(layer, node_embeddings, edges, win))

\* the destination column of the rows a mask selects
MaskedDes(edges, index) == [k \in DOMAIN BoolIndex(index) |-> edges[BoolIndex(index)[k]][3]]

CompGCNForward(edges, mode) ==
    \E win_o \in IndexPutWinners(MaskedDes(edges, ForwardMask(layer, edges))),
       win_s \in IndexPutWinners(MaskedDes(edges, ReverseMask(layer, edges))) :
       Returned("forward", [edges |-> edges, mode |-> mode],
                CompGCN_forward(layer, node_embeddings, rela_embeddings, edges, mode,
                                win_o, win_s))

\* composition called on its own
CompGCNComposition(a, b, mode) ==
    Returned("composition", [edges |-> <<>>, a |-> a, b |-> b, mode |-> mode],
             [ret |-> composition(a, b, mode), err |-> "none", loc |-> NoLoc])

REGCNForward(edges) ==
    Returned("forward", [edges |-> edges],
             REGCN_forward(layer, node_embeddings, edges_embed, edges))

WGCNForward(edges) ==
    Returned("forward", [edges |-> edges], WGCN_forward(layer, node_embeddings, edges))

GCNForward(edges) ==
    Returned("forward", [edges |-> edges], GCN_forward(node_embeddings, edges))

\* the caller takes the result; the layer is ready for the next call
Return ==
    /\ pc = "returned"
    /\ pc' = "idle"
    /\ op' = "none"
    /\ call' = NoCall
    /\ loc' = NoLoc
    /\ ret' = None
    /\ err' = "none"
    /\ UNCHANGED layer

Idle(cls) == pc = "idle" /\ layer.cls = cls

\* a forward call has returned from a layer of class cls
Again(cls) == pc = "returned" /\ op = "forward" /\ layer.cls = cls

Construct ==
    \/ \E slw \in SelfLoopWeights : RGCNConstruct(slw)
    \/ CompGCNConstruct
    \/ \E bias \in BOOLEAN, active \in ActiveNames : REGCNConstruct(bias, active)
    \/ \E active \in ActiveNames : WGCNConstruct(active)
    \/ GCNConstruct

Forward ==
    \/ Idle("RGCNLayer") /\ \E edges \in EdgeLists : RGCNForward(edges)
    \/ Idle("CompGCNLayer") /\ \E edges \in EdgeLists, mode \in Modes : CompGCNForward(edges, mode)
    \/ Idle("CompGCNLayer") /\
          \E a \in Range(node_embeddings), b \in Range(rela_embeddings), mode \in AnyModes :
             CompGCNComposition(a, b, mode)
    \/ Idle("REGCNLayer") /\ \E edges \in EdgeLists : REGCNForward(edges)
    \/ Idle("WGCNLayer") /\ \E edges \in EdgeLists : WGCNForward(edges)
    \/ Idle("GCNLayer") /\ \E edges \in PairLists : GCNForward(edges)

\* the caller passes the same triplets again, in another order
Reorder ==
    \/ Again("RGCNLayer") /\
          \E p \in Orders(DOMAIN call.edges) : RGCNForward(Permute(call.edges, p))
    \/ Again("CompGCNLayer") /\
          \E p \in Orders(DOMAIN call.edges) : CompGCNForward(Permute(call.edges, p), call.mode)
    \/ Again("REGCNLayer") /\
          \E p \in Orders(DOMAIN call.edges) : REGCNForward(Permute(call.edges, p))

Next == Construct \/ Forward \/ Return

Spec == Init /\ [][Next]_vars

NextReorder == Next \/ Reorder

\* the same program with callers that repeat a call on the reordered edge list
SpecReorder == Init /\ [][NextReorder]_vars

(* ----------------------------- properties ----------------------------- *)

\* a forward call of a layer of class cls has returned or raised
After(cls) == pc = "returned" /\ op = "forward" /\ layer.cls = cls

\* the edges with destination d
Into(edges, d) == {e \in DOMAIN edges : edges[e][3] = d}

Dests(edges) == {edges[e][3] : e \in DOMAIN edges}

\* the sum of the rows msgs[e], e in S
VecSumOver(msgs, S) ==
    [j \in Idx(output_dim) |-> SumOver([e \in DOMAIN msgs |-> msgs[e][j]], S)]

\* the message of edge e in RGCN: h[s] @ weight[r]
RGCNMessage(edges, e) == MatVec(node_embeddings[edges[e][1]], RGCN_weight(edges[e][2]))

\* the message of edge e in CompGCN under linear map W and composition mode
CompGCNMessage(W, edges, e, mode) ==
    Linear(W, composition(node_embeddings[edges[e][1]], rela_embeddings[edges[e][2]], mode))

CompGCNSelfLoop(d, mode) ==
    Linear(W_i, composition(node_embeddings[d], rela_embeddings[2 * num_rela], mode))

\* C1: RGCNLayer.forward leaves in out[d], for every destination d of the edge list,
\* h[d] @ self_loop_weight plus the mean of h[s] @ weight[r] over all edges (s, r, d)
\* into d, each edge counted once.
C1_RGCNMeanOverAllEdges ==
    After("RGCNLayer") =>
        \A d \in Dests(call.edges) :
            ret[d] = RatVecAdd(
                RatVecOfInt(MatVec(node_embeddings[d], layer.self_loop_weigt)),
                RatVecDiv(VecSumOver([e \in DOMAIN call.edges |-> RGCNMessage(call.edges, e)],
                                     Into(call.edges, d)),
                          Cardinality(Into(call.edges, d))))

\* C2: CompGCNLayer.forward leaves in h_v[d] the self-loop term plus the sum of
\* W_o(compose(..)) over all forward edges into d plus the sum of W_s(compose(..))
\* over all reverse edges into d, each edge counted once (stated for mode 'add',
\* the mode the messages are composed with whatever the caller passes).
C2_CompGCNSumOverAllEdges ==
    (After("CompGCNLayer") /\ call.mode = "add") =>
        \A d \in Idx(NumNodes) :
            ret.h_v[d] = VecAdd(
                CompGCNSelfLoop(d, "add"),
                VecAdd(
                    VecSumOver([e \in DOMAIN call.edges |-> CompGCNMessage(W_o, call.edges, e, "add")],
                               {e \in Into(call.edges, d) : call.edges[e][2] < num_rela}),
                    VecSumOver([e \in DOMAIN call.edges |-> CompGCNMessage(W_s, call.edges, e, "add")],
                               {e \in Into(call.edges, d) : call.edges[e][2] >= num_rela})))

\* C3: with the layer and the embeddings fixed, RGCNLayer.forward and
\* CompGCNLayer.forward return the same output for two edge lists that hold the
\* same triplets in two different orders.
C3_OrderIndependent ==
    [][(/\ pc = "returned" /\ op = "forward"
        /\ pc' = "returned" /\ op' = "forward"
        /\ layer.cls \in {"RGCNLayer", "CompGCNLayer"}
        /\ layer' = layer
        /\ call'.edges # call.edges
        /\ \E p \in Orders(DOMAIN call.edges) : call'.edges = Permute(call.edges, p)
        /\ layer.cls = "CompGCNLayer" => call'.mode = call.mode)
       => ret' = ret]_vars

\* C4: the mode passed to CompGCNLayer.forward is the composition of the self-loop
\* term and of every forward-edge and reverse-edge message.
C4_ModeAppliedEverywhere ==
    After("CompGCNLayer") =>
        /\ \A d \in Idx(NumNodes) : loc.self_loop[d] = CompGCNSelfLoop(d, call.mode)
        /\ \A k \in DOMAIN loc.o.rows :
               loc.o.message[k] = CompGCNMessage(W_o, call.edges, loc.o.rows[k], call.mode)
        /\ \A k \in DOMAIN loc.s.rows :
               loc.s.message[k] = CompGCNMessage(W_s, call.edges, loc.s.rows[k], call.mode)

\* C5: WGCNLayer.forward on in-range edges completes without error and returns
\* activation(h), h[d] = Linear(x[d]) plus the sum over the edges (s, r, d) of
\* Linear(x[s] * relation_weight[r]).
C5_WGCNForwardCompletes ==
    After("WGCNLayer") =>
        /\ err = "none"
        /\ ret = Activation(layer.active,
                   [d \in Idx(NumNodes) |->
                       VecAdd(WGCN_fc(node_embeddings[d]),
                              VecSumOver([e \in DOMAIN call.edges |->
                                             WGCN_fc(VecScale(node_embeddings[call.edges[e][1]],
                                                              relation_weight[call.edges[e][2]]))],
                                         Into(call.edges, d)))])

\* C6: in REGCNLayer, CompGCNLayer and RGCNLayer forward, the pre-activation row of
\* a node that is the destination of no edge is exactly its self-loop transform.
C6_IsolatedNodeKeepsSelfLoop ==
    (After("REGCNLayer") \/ After("CompGCNLayer") \/ After("RGCNLayer")) =>
        \A v \in Idx(NumNodes) \ Dests(call.edges) :
            /\ After("REGCNLayer") =>
                   loc.h[v] = RatVecOfInt(fc_self(layer, node_embeddings[v]))
            /\ After("CompGCNLayer") => ret.h_v[v] = CompGCNSelfLoop(v, call.mode)
            /\ After("RGCNLayer") =>
                   ret[v] = RatVecOfInt(MatVec(node_embeddings[v], layer.self_loop_weigt))

\* a CompGCN call with a forward and a reverse edge into nodes 0 and 1; node 2 has
\* no incoming edge
C6_Witness ==
    /\ After("CompGCNLayer")
    /\ call.mode = "mult"
    /\ Dests(call.edges) = {0, 1}
    /\ \E e, f \in DOMAIN call.edges : call.edges[e][2] < num_rela /\ call.edges[f][2] >= num_rela
    /\ ret.h_v[2] = CompGCNSelfLoop(2, "mult")
    /\ ret.h_v[0] # CompGCNSelfLoop(0, "mult")

\* C7: CompGCNLayer.forward puts every edge in exactly one of the two subsets, by
\* its relation id alone (forward iff relation_id < num_rela); forward rows reach
\* h_v only through W_o and reverse rows only through W_s.
C7_ForwardReversePartition ==
    After("CompGCNLayer") =>
        LET fwd == Range(loc.o.rows)
            rev == Range(loc.s.rows)
        IN /\ fwd \cap rev = {}
           /\ fwd \cup rev = DOMAIN call.edges
           /\ Cardinality(fwd) = Cardinality(DOMAIN loc.o.rows)
           /\ Cardinality(rev) = Cardinality(DOMAIN loc.s.rows)
           /\ \A e \in DOMAIN call.edges : e \in fwd <=> call.edges[e][2] < num_rela
           /\ \A e \in DOMAIN call.edges : e \in rev <=> call.edges[e][2] >= num_rela
           /\ \A d \in Idx(NumNodes) :
                 ret.h_v[d] = VecAdd(
                     loc.self_loop[d],
                     VecAdd(
                         VecSumOver([k \in DOMAIN loc.o.rows |->
                                        CompGCNMessage(W_o, call.edges, loc.o.rows[loc.o.gather[k]], "add")],
                                    {k \in DOMAIN loc.o.rows : loc.o.des[k] = d}),
                         VecSumOver([k \in DOMAIN loc.s.rows |->
                                        CompGCNMessage(W_s, call.edges, loc.s.rows[loc.s.gather[k]], "add")],
                                    {k \in DOMAIN loc.s.rows : loc.s.des[k] = d})))

\* a CompGCN call whose edge list holds a forward and a reverse edge
C7_Witness ==
    /\ After("CompGCNLayer")
    /\ Range(loc.o.rows) # {}
    /\ Range(loc.s.rows) # {}
    /\ \E e \in Range(loc.s.rows) : call.edges[e][2] = num_rela

\* the activation names each constructor has a branch for
REGCN_supported == {"rrelu", "sigmoid", "tanh"}

WGCN_supported == {"relu", "sigmoid", "tanh"}

\* C8: composition called with a mode outside add, sub, mult signals an error, and
\* the REGCNLayer and WGCNLayer constructors signal an error for an activation name
\* outside their supported set.
C8_UnknownConfigFailsLoudly ==
    /\ (pc = "returned" /\ op = "composition" /\ call.mode \notin Modes) => err # "none"
    /\ (op = "__init__" /\ layer.cls = "REGCNLayer" /\ call.active \notin REGCN_supported)
           => err # "none"
    /\ (op = "__init__" /\ layer.cls = "WGCNLayer" /\ call.active \notin WGCN_supported)
           => err # "none"

\* C9: in GCNLayer.forward every node has degree >= 1 after the self-loops are
\* added, every deg_inv_sqrt entry is finite and non-zero, the inf-to-0 replacement
\* changes nothing, and every edge's coefficient is finite and positive.
C9_DegreesPositive ==
    After("GCNLayer") =>
        /\ \A n \in Idx(NumNodes) : loc.deg[n] >= 1
        /\ \A n \in Idx(NumNodes) : loc.pow[n] = RSqrt(loc.deg[n])
        /\ loc.deg_inv_sqrt = loc.pow
        /\ \A e \in DOMAIN loc.edges :
               /\ loc.norm[e].kind = "rsqrt"
               /\ loc.norm[e].of >= 1

\* a GCN call on a non-empty edge list that leaves node 2 without any edge
C9_Witness ==
    /\ After("GCNLayer")
    /\ call.edges # <<>>
    /\ \A e \in DOMAIN call.edges : call.edges[e][1] # 2 /\ call.edges[e][2] # 2
    /\ loc.deg[2] = 1

\* one pass of the reorder-then-scatter step: the message moved to row k was
\* computed from a row whose destination is the unique destination row k is
\* accumulated into, and the index_matrix entry read for row k is one this pass wrote
Aligned(pass) ==
    \A k \in DOMAIN pass.des :
        /\ pass.gather[k] \in DOMAIN pass.des
        /\ pass.des[pass.gather[k]] = pass.des_unique[pass.des_index[k]]
        /\ pass.des_unique[pass.des_index[k]] = pass.des[k]

====
